---- MODULE Spec2Model ----
(***************************************************************************)
(* Model of src/src/mask.cc of dans-gdal-scripts:                          *)
(*   get_bitgrid_for_dataset  (streaming multi-band no-data mask builder)  *)
(*   BitGrid::erode           (in-place three-row-buffer erosion)          *)
(*   BitGrid::centroid        (mean coordinate of the set pixels)          *)
(*                                                                         *)
(* Two specifications share the BitGrid state (w, h, grid):                *)
(*   Spec         one run of get_bitgrid_for_dataset, one step per band    *)
(*                header and per tile, the raster source read tile by tile *)
(*   SpecBitGrid  erode() (one step per row) and centroid() on any grid    *)
(***************************************************************************)
EXTENDS Integers, Sequences, FiniteSets, TLC

\* ------------------------------------------------------------------ bounds
\* largest raster (w*h cells) scanned by get_bitgrid_for_dataset
MaxCells == 4
\* longest bandlist; the dataset has this many bands
MaxBands == 2
\* largest grid (w*h cells) and widest grid eroded / averaged in SpecBitGrid
MaxGridCells == 9
MaxGridW == 3

\* Byte samples: the two extremes of uint8_t stand for all byte values.
Samples == {0, 255}
\* the no-data value of the runs (-ndv 255, as in tests/test1.sh)
NdvValues == {255}

VARIABLES
    w, h,           \* BitGrid::w, BitGrid::h (raster size in Spec)
    grid,           \* BitGrid bits, [(0..w-1) \X (0..h-1) -> BOOLEAN] ("mask")
    pc,             \* position of the running call
    ret,            \* what the most recent call returned
    faults,         \* calls made outside a callee's precondition (observer)
    \* ---- get_bitgrid_for_dataset
    band_count,     \* GDALGetRasterCount(ds)
    bandlist,       \* the band selectors, in order
    ndv_def,        \* NdvDef: [invert, ndv]
    dbuf,           \* DebugPlot*: [present, stride_x, stride_y]
    bandlist_idx,   \* loop variable of the band loop
    blocksize_x, blocksize_y,   \* GDALGetBlockSize of the current band
    boff_x, boff_y, \* offset of the next tile
    prev_progress,  \* the value passed to GDALTermProgress before the last
    progress,       \* the last value passed to GDALTermProgress
    plots,          \* plotPoint calls: <<phase, x, y, r, g, b>>
    any_valid,      \* observer: pixel was not no-data in some band read so far
    all_valid,      \* observer: pixel was not no-data in every band read so far
    visits,         \* observer: times the pixel was classified and applied
    \* ---- BitGrid::erode
    ey,             \* loop variable y of erode
    rowu, rowm, rowl,   \* the three row buffers
    pre             \* observer: the grid as it was when erode() started

bgvars == <<w, h, grid, pc, ret, faults>>
dsvars == <<band_count, bandlist, ndv_def, dbuf, bandlist_idx, blocksize_x,
            blocksize_y, boff_x, boff_y, prev_progress, progress, plots,
            any_valid, all_valid, visits>>
ervars == <<ey, rowu, rowm, rowl, pre>>
vars == <<bgvars, dsvars, ervars>>

\* ------------------------------------------------------------------ BitGrid
Coords(w_, h_) == (0 .. w_ - 1) \X (0 .. h_ - 1)

InGrid(x, y) == x >= 0 /\ y >= 0 /\ x < w /\ y < h

\* BitGrid::zero
zero(w_, h_) == [p \in Coords(w_, h_) |-> FALSE]

\* BitGrid::set; the caller guarantees InGrid(x, y)
set(g, x, y, val) == IF <<x, y>> \in DOMAIN g THEN [g EXCEPT ![<<x, y>>] = val] ELSE g

\* BitGrid::get; the caller guarantees InGrid(x, y).  A call outside the grid
\* reads past the bits of the grid: oob is what such a read yields
get(g, x, y, oob) == IF <<x, y>> \in DOMAIN g THEN g[<<x, y>>] ELSE oob

NoRet == [kind |-> "none"]
NoProgress == <<-1, 1>>
NoRow == <<>>


\* --------------------------------------------- get_bitgrid_for_dataset parts

\* bsize = blocksize, cut at the raster edge
Clip(blocksize, boff, limit) ==
    IF blocksize + boff > limit THEN limit - boff ELSE blocksize

\* faulty variant: only the upper end of the range is checked
BandOutOfRangeUpperOnly(band_idx, bc) == band_idx > bc

\* the band selector check at the head of the band loop
BandOutOfRange(band_idx, bc) == band_idx < 1 \/ band_idx > bc

\* faulty variant: the bands already scanned are left out of the numerator
ProgressValueNoBand(idx, n, w_, h_, by_, bx_, bsize_y) ==
    << by_ * w_ + bx_ * bsize_y, n * w_ * h_ >>

\* the fraction passed to GDALTermProgress before a tile is read, <<num, den>>
ProgressValue(idx, n, w_, h_, by_, bx_, bsize_y) ==
    << idx * w_ * h_ + by_ * w_ + bx_ * bsize_y, n * w_ * h_ >>

\* a/b <= c/d for fractions with positive denominators
FracLeq(a, b) == a[1] * b[2] <= b[1] * a[2]

\* the window of the raster one GDALRasterIO call asks for
TileCoords(bx_, by_, bsize_x, bsize_y) ==
    (bx_ .. bx_ + bsize_x - 1) \X (by_ .. by_ + bsize_y - 1)

\* GDALRasterIO(GF_Read, boff_x, boff_y, bsize_x, bsize_y, buf, bsize_x,
\* bsize_y, type, 0, 0): the window, row-major and packed, at the start of the
\* block buffer.  Only these bsize_x*bsize_y entries are read afterwards.
GDALRasterIO(region, bx_, by_, bsize_x, bsize_y) ==
    [k \in 0 .. bsize_x * bsize_y - 1 |->
        region[<<bx_ + (k % bsize_x), by_ + (k \div bsize_x)>>]]

\* NdvDef: is a sample no-data for the band at this bandlist position
IsNdv(def, idx, val) == val = def.ndv

\* NdvDef::arrayCheckNdv(idx, p, row_ndv, n): classify the n samples at p
arrayCheckNdv(def, idx, buf, p, n) ==
    [i \in 0 .. n - 1 |-> IsNdv(def, idx, buf[p + i])]

\* faulty variant: the sample pointer is not advanced from row to row
RowStartNotAdvanced(j, bsize_x) == 0

\* where the sample pointer (p_8bit / p_dbl) stands when row j of a tile
\* starts: it was advanced once per pixel of the j rows before
RowStart(j, bsize_x) == j * bsize_x

\* a sample is plotted during a band scan
IsDbufStride(d, idx, i, y_) ==
    d.present /\ idx = 0 /\ (y_ % d.stride_y) = 0 /\ (i % d.stride_x) = 0

\* the colour plotted for a sample
DbColor(val) ==
    LET v0 == 50 + (val \div 3)
        v1 == IF v0 < 50 THEN 50 ELSE v0
        db_v == IF v1 > 254 THEN 254 ELSE v1
    IN  << (db_v * 3) \div 4, db_v, db_v >>

\* faulty variant: without invert a later band overwrites the bit
CombineOverwrite(idx, invert, old, is_ndv) ==
    IF idx = 0 THEN ~is_ndv
    ELSE IF invert THEN (IF is_ndv THEN FALSE ELSE old)
    ELSE ~is_ndv

\* faulty variant: with invert a later band adds pixels as without
CombineInvertAdds(idx, invert, old, is_ndv) ==
    IF idx = 0 THEN ~is_ndv
    ELSE (IF ~is_ndv THEN TRUE ELSE old)

\* the combination rule for one pixel: the new bit of the mask
Combine(idx, invert, old, is_ndv) ==
    IF idx = 0 THEN ~is_ndv
    ELSE IF invert THEN (IF is_ndv THEN FALSE ELSE old)
    ELSE (IF ~is_ndv THEN TRUE ELSE old)

\* the positions a loop  for(v = 0; v < limit; v += stride)  visits
StrideSteps(limit, stride) == {v \in 0 .. limit - 1 : v % stride = 0}

\* fatal_error(): prints and ends the process; nothing is returned
fatal_error == "fatal"

\* -------------------------------------------------------------- inputs
Sizes == {s \in (1 .. MaxCells) \X (1 .. MaxCells) : s[1] * s[2] <= MaxCells}

\* bandlists: position k selects band k (the dataset's own order) or an
\* out-of-range selector, 0 or band_count + 1; no band is listed twice, so
\* two scans never read the same samples
BandLists(bc) ==
    {l \in UNION {[1 .. n -> 0 .. bc + 1] : n \in 0 .. MaxBands} :
        \A k \in DOMAIN l : l[k] \in {0, k, bc + 1}}

\* native block sizes of a band: a block inside the raster in both directions
\* (strips, tiles, sizes that do not divide w or h), or one larger than the
\* raster (every larger block is cut to the same single tile)
BlockSizes(w_, h_) == ((1 .. w_) \X (1 .. h_)) \cup {<<w_ + 1, h_ + 1>>}

NoDbuf == [present |-> FALSE, stride_x |-> 1, stride_y |-> 1]

Dbufs(w_, h_) ==
    {NoDbuf} \cup
    {[present |-> TRUE, stride_x |-> sx, stride_y |-> sy] :
        sx \in 1 .. w_, sy \in 1 .. h_}

ErodeIdle ==
    /\ ey = 0 /\ rowu = NoRow /\ rowm = NoRow /\ rowl = NoRow /\ pre = NoRow

\* state at the entry of get_bitgrid_for_dataset, after mask.zero()
InitDataset ==
    /\ \E s \in Sizes : w = s[1] /\ h = s[2]
    /\ grid = zero(w, h)
    /\ pc = "band"
    /\ ret = NoRet
    /\ faults = {}
    /\ band_count = MaxBands
    /\ bandlist \in BandLists(band_count)
    /\ ndv_def \in [invert : BOOLEAN, ndv : NdvValues]
    /\ dbuf \in Dbufs(w, h)
    /\ bandlist_idx = 0
    /\ blocksize_x = 0 /\ blocksize_y = 0 /\ boff_x = 0 /\ boff_y = 0
    /\ prev_progress = NoProgress /\ progress = NoProgress
    /\ plots = {}
    /\ any_valid = [p \in Coords(w, h) |-> FALSE]
    /\ all_valid = [p \in Coords(w, h) |-> TRUE]
    /\ visits = [p \in Coords(w, h) |-> 0]
    /\ ErodeIdle

\* -------------------------------------------------------------- actions

\* head of the band loop, selector out of range: fatal_error
BandFatal ==
    /\ pc = "band"
    /\ bandlist_idx < Len(bandlist)
    /\ BandOutOfRange(bandlist[bandlist_idx + 1], band_count)
    /\ pc' = fatal_error
    /\ UNCHANGED <<w, h, grid, ret, faults, dsvars, ervars>>

\* head of the band loop: the band's native block size, buffers sized
StartBand ==
    /\ pc = "band"
    /\ bandlist_idx < Len(bandlist)
    /\ ~BandOutOfRange(bandlist[bandlist_idx + 1], band_count)
    /\ \E b \in BlockSizes(w, h) : blocksize_x' = b[1] /\ blocksize_y' = b[2]
    /\ boff_x' = 0 /\ boff_y' = 0
    /\ pc' = "tile"
    /\ UNCHANGED <<w, h, grid, ret, faults, band_count, bandlist, ndv_def,
                   dbuf, bandlist_idx, prev_progress, progress, plots,
                   any_valid, all_valid, visits, ervars>>

\* one tile: report progress, read it, classify and apply it row by row,
\* then step the tile loops (and the band loop after the last tile)
ProcessTile ==
    /\ pc = "tile"
    /\ LET bsize_y == Clip(blocksize_y, boff_y, h)
           bsize_x == Clip(blocksize_x, boff_x, w)
           tile == TileCoords(boff_x, boff_y, bsize_x, bsize_y)
       IN  \E region \in [tile -> Samples] :
           LET buf == GDALRasterIO(region, boff_x, boff_y, bsize_x, bsize_y)
               row_ndv(j) == arrayCheckNdv(ndv_def, bandlist_idx, buf,
                                           RowStart(j, bsize_x), bsize_x)
               newbit(p) == Combine(bandlist_idx, ndv_def.invert, grid[p],
                                    row_ndv(p[2] - boff_y)[p[1] - boff_x])
           IN  /\ prev_progress' = progress
               /\ progress' = ProgressValue(bandlist_idx, Len(bandlist), w, h,
                                            boff_y, boff_x, bsize_y)
               /\ plots' = plots \cup
                    {<<bandlist_idx, boff_x + i, boff_y + j>>
                        \o DbColor(buf[RowStart(j, bsize_x) + i]) :
                     <<i, j>> \in {q \in (0 .. bsize_x - 1) \X (0 .. bsize_y - 1) :
                                     IsDbufStride(dbuf, bandlist_idx, q[1],
                                                  q[2] + boff_y)}}
               /\ grid' = [p \in DOMAIN grid |->
                             IF p \in tile THEN newbit(p) ELSE grid[p]]
               /\ faults' = faults
                    \cup {<<"mask.set", p>> : p \in tile \ DOMAIN grid}
                    \cup {<<"GDALRasterIO", p>> : p \in tile \ Coords(w, h)}
               /\ any_valid' = [p \in DOMAIN any_valid |->
                    IF p \in tile
                    THEN any_valid[p] \/ ~IsNdv(ndv_def, bandlist_idx, region[p])
                    ELSE any_valid[p]]
               /\ all_valid' = [p \in DOMAIN all_valid |->
                    IF p \in tile
                    THEN all_valid[p] /\ ~IsNdv(ndv_def, bandlist_idx, region[p])
                    ELSE all_valid[p]]
               /\ visits' = [p \in DOMAIN visits |->
                    IF p \in tile THEN visits[p] + 1 ELSE visits[p]]
    /\ IF boff_x + blocksize_x < w
       THEN /\ boff_x' = boff_x + blocksize_x
            /\ UNCHANGED <<boff_y, blocksize_x, blocksize_y, bandlist_idx, pc>>
       ELSE IF boff_y + blocksize_y < h
       THEN /\ boff_x' = 0
            /\ boff_y' = boff_y + blocksize_y
            /\ UNCHANGED <<blocksize_x, blocksize_y, bandlist_idx, pc>>
       ELSE /\ boff_x' = 0 /\ boff_y' = 0
            /\ blocksize_x' = 0 /\ blocksize_y' = 0
            /\ bandlist_idx' = bandlist_idx + 1
            /\ pc' = "band"
    /\ UNCHANGED <<w, h, ret, band_count, bandlist, ndv_def, dbuf, ervars>>

\* after the band loop: mark the excluded pixels on the stride grid, report
\* progress 1, return the mask
Finish ==
    /\ pc = "band"
    /\ bandlist_idx = Len(bandlist)
    /\ plots' = plots \cup
         (IF dbuf.present
          THEN {<<-1, p[1], p[2], 0, 0, 0>> :
                  p \in {q \in StrideSteps(w, dbuf.stride_x)
                               \X StrideSteps(h, dbuf.stride_y) : ~grid[q]}}
          ELSE {})
    /\ prev_progress' = progress
    /\ progress' = <<1, 1>>
    /\ ret' = [kind |-> "BitGrid"]
    /\ pc' = "done"
    /\ UNCHANGED <<w, h, grid, faults, band_count, bandlist, ndv_def, dbuf,
                   bandlist_idx, blocksize_x, blocksize_y, boff_x, boff_y,
                   any_valid, all_valid, visits, ervars>>

Next == BandFatal \/ StartBand \/ ProcessTile \/ Finish

\* runs without a debug plot
Init == InitDataset /\ ~dbuf.present

Spec == Init /\ [][Next]_vars

\* runs with a debug plot
InitPlot ==
    /\ InitDataset
    /\ dbuf.present
    /\ ~ndv_def.invert

SpecPlot == InitPlot /\ [][Next]_vars


\* ------------------------------------------------------------ BitGrid::erode

\* faulty variant: the pairs (lr,l) and (d,ul) in place of (lr,d) and (l,ul)
SurvivesListedPairs(ul, um, ur, ml, mr, ll, lm, lr) ==
    (ul /\ um) \/ (um /\ ur) \/ (ur /\ mr) \/ (mr /\ lr) \/
    (lr /\ ml) \/ (ml /\ ll) \/ (ll /\ lm) \/ (lm /\ ul)

\* faulty variant: every pair has to be set, not one of them
SurvivesAllPairs(ul, um, ur, ml, mr, ll, lm, lr) ==
    (ul /\ um) /\ (um /\ ur) /\ (ur /\ mr) /\ (mr /\ lr) /\
    (lr /\ lm) /\ (lm /\ ll) /\ (ll /\ ml) /\ (ml /\ ul)

\* a pixel keeps its value: two consecutive neighbours around the ring are set
\* (first letter: upper/middle/lower row, second: left/middle/right column)
Survives(ul, um, ur, ml, mr, ll, lm, lr) ==
    (ul /\ um) \/ (um /\ ur) \/ (ur /\ mr) \/ (mr /\ lr) \/
    (lr /\ lm) \/ (lm /\ ll) \/ (ll /\ ml) \/ (ml /\ ul)

\* the rotation of the three row buffers at the head of a row:
\* <<rowu, rowm, rowl>> after  tmp=rowu; rowu=rowm; rowm=rowl; rowl=tmp
Rotate(ru, rm, rl) == <<rm, rl, ru>>

\* the loop over x of one row, the window of six values slid along the
\* buffers; win = [ul, um, ml, mm, ll, lm]
RECURSIVE ErodeScan(_, _, _, _, _, _, _, _)
ErodeScan(g, w_, y_, x, ru, rm, rl, win) ==
    IF x >= w_ THEN g
    ELSE LET ur == IF x + 1 < w_ THEN ru[x + 1] ELSE FALSE
             mr == IF x + 1 < w_ THEN rm[x + 1] ELSE FALSE
             lr == IF x + 1 < w_ THEN rl[x + 1] ELSE FALSE
             g2 == IF ~Survives(win.ul, win.um, ur, win.ml, mr,
                                win.ll, win.lm, lr)
                   THEN set(g, x, y_, FALSE)
                   ELSE g
         IN  ErodeScan(g2, w_, y_, x + 1, ru, rm, rl,
                       [ul |-> win.um, um |-> ur,
                        ml |-> win.mm, mm |-> mr,
                        ll |-> win.lm, lm |-> lr])

\* the indices at which one row's scan reads the row buffers
RowReads(w_) == {0} \cup {x + 1 : x \in {v \in 0 .. w_ - 1 : v + 1 < w_}}

\* --------------------------------------------------------- BitGrid::centroid

\* double(a) / n for integers a >= 0, n >= 0: the exact quotient <<a, n>>,
\* and what IEEE division yields for n = 0
DoubleDiv(a, n) ==
    IF n # 0 THEN <<a, n>> ELSE IF a = 0 THEN "NaN" ELSE "Inf"

\* the two loops of centroid over the cells k = y*w + x, from cell k on
RECURSIVE CentroidAccum(_, _, _, _, _, _, _)
CentroidAccum(g, w_, h_, k, accum_x, accum_y, cnt) ==
    IF k >= w_ * h_ THEN <<accum_x, accum_y, cnt>>
    ELSE IF get(g, k % w_, k \div w_, FALSE)
         THEN CentroidAccum(g, w_, h_, k + 1, accum_x + (k % w_),
                            accum_y + (k \div w_), cnt + 1)
         ELSE CentroidAccum(g, w_, h_, k + 1, accum_x, accum_y, cnt)

centroid(g, w_, h_) ==
    LET a == CentroidAccum(g, w_, h_, 0, 0, 0, 0)
    IN  [kind |-> "Vertex", x |-> DoubleDiv(a[1], a[3]),
                            y |-> DoubleDiv(a[2], a[3])]

\* ------------------------------------------------------- SpecBitGrid

GridSizes ==
    {s \in (1 .. MaxGridW) \X (1 .. MaxGridCells) : s[1] * s[2] <= MaxGridCells}

\* the all-true 4 x 4 grid of the seed test
SeedGrid == [p \in Coords(4, 4) |-> TRUE]

DatasetIdle ==
    /\ band_count = 0 /\ bandlist = <<>>
    /\ ndv_def = [invert |-> FALSE, ndv |-> 255]
    /\ dbuf = NoDbuf
    /\ bandlist_idx = 0
    /\ blocksize_x = 0 /\ blocksize_y = 0 /\ boff_x = 0 /\ boff_y = 0
    /\ prev_progress = NoProgress /\ progress = NoProgress
    /\ plots = {}
    /\ any_valid = NoRow /\ all_valid = NoRow /\ visits = NoRow

\* a finished BitGrid of any content
InitBitGrid ==
    /\ \/ \E s \in GridSizes :
            w = s[1] /\ h = s[2] /\ grid \in [Coords(s[1], s[2]) -> BOOLEAN]
       \/ w = 4 /\ h = 4 /\ grid = SeedGrid
    /\ pc = "ready"
    /\ ret = NoRet
    /\ faults = {}
    /\ DatasetIdle
    /\ ErodeIdle

\* erode(), up to the loop over the rows: the buffers allocated, rowm
\* cleared, rowl filled from row 0; rowu is not initialised
ErodeBegin ==
    /\ pc \in {"ready", "eroded"}
    /\ pc' = "erode"
    /\ ey' = 0
    /\ rowu' = [i \in 0 .. w - 1 |-> "indeterminate"]
    /\ rowm' = [i \in 0 .. w - 1 |-> FALSE]
    /\ rowl' = [i \in 0 .. w - 1 |-> get(grid, i, 0, FALSE)]
    /\ faults' = {<<"get", i, 0>> : i \in {v \in 0 .. w - 1 : ~InGrid(v, 0)}}
    /\ pre' = grid
    /\ ret' = NoRet
    /\ UNCHANGED <<w, h, grid, dsvars>>

\* one row y of erode(): rotate the buffers, fill rowl from row y+1, scan
ErodeRow ==
    /\ pc = "erode"
    /\ ey < h
    /\ \E junk \in (IF InGrid(0, ey + 1) THEN {[i \in 0 .. w - 1 |-> FALSE]}
                    ELSE [0 .. w - 1 -> BOOLEAN]) :
       LET rot == Rotate(rowu, rowm, rowl)
           ru == rot[1]
           rm == rot[2]
           rl == [i \in 0 .. w - 1 |-> get(grid, i, ey + 1, junk[i])]
       IN  /\ rowu' = ru /\ rowm' = rm /\ rowl' = rl
           /\ grid' = ErodeScan(grid, w, ey, 0, ru, rm, rl,
                                [ul |-> FALSE, um |-> ru[0],
                                 ml |-> FALSE, mm |-> rm[0],
                                 ll |-> FALSE, lm |-> rl[0]])
    /\ faults' = faults
         \cup {<<"get", i, ey + 1>> :
                 i \in {v \in 0 .. w - 1 : ~InGrid(v, ey + 1)}}
         \cup {<<"row", k>> : k \in RowReads(w) \ (0 .. w - 1)}
    /\ ey' = ey + 1
    /\ UNCHANGED <<w, h, pc, ret, pre, dsvars>>

\* erode(), after the loop: the buffers deleted
ErodeEnd ==
    /\ pc = "erode"
    /\ ey = h
    /\ rowu' = NoRow /\ rowm' = NoRow /\ rowl' = NoRow
    /\ ey' = 0
    /\ pc' = "eroded"
    /\ ret' = [kind |-> "void"]
    /\ UNCHANGED <<w, h, grid, faults, pre, dsvars>>

\* centroid() of the grid as it stands
Centroid ==
    /\ pc \in {"ready", "eroded"}
    /\ ret' = centroid(grid, w, h)
    /\ UNCHANGED <<w, h, grid, pc, faults, dsvars, ervars>>

NextBitGrid == ErodeBegin \/ ErodeRow \/ ErodeEnd \/ Centroid

SpecBitGrid == InitBitGrid /\ [][NextBitGrid]_vars


\* ===================================================================
\* Properties of get_bitgrid_for_dataset
\* ===================================================================

\* bands at positions 0 .. bandlist_idx-1 have been scanned completely
BetweenBands == pc \in {"band", "done", "fatal"}

\* C1: with invert false, the mask bit of a pixel is true iff the pixel was
\* not no-data in at least one of the bands applied to it so far (band 0
\* seeds it, later bands only add); hence after bands 0..k, and in the
\* returned mask, it is the OR of 'not no-data' over the bands scanned.
C1_UnionOfBands ==
    (~ndv_def.invert) =>
        \A p \in Coords(w, h) : grid[p] = any_valid[p]

\* C1 witness: a two-band run has returned a mask holding a pixel that one
\* of the bands marked no-data, and a pixel left out.
C1_Witness ==
    /\ pc = "done" /\ ~ndv_def.invert /\ Len(bandlist) = 2
    /\ \E p \in Coords(w, h) : grid[p] /\ ~all_valid[p]
    /\ \E p \in Coords(w, h) : ~grid[p]

\* C2: with invert true, the mask bit of a scanned pixel is true iff the
\* pixel was not no-data in band 0 nor in any later band applied to it
\* (later bands only clear); so is the returned mask.
C2_IntersectionOfBands ==
    ndv_def.invert =>
        \A p \in Coords(w, h) : visits[p] >= 1 => (grid[p] = all_valid[p])

\* C2 witness: a two-band run has returned a mask from which a later band
\* removed a pixel, and which kept another.
C2_Witness ==
    /\ pc = "done" /\ ndv_def.invert /\ Len(bandlist) = 2
    /\ \E p \in Coords(w, h) : any_valid[p] /\ ~grid[p]
    /\ \E p \in Coords(w, h) : grid[p]

SelectorInRange(k) == 1 <= bandlist[k] /\ bandlist[k] <= band_count

\* C5: a mask is returned only when every listed selector lies in
\* [1, band_count]; a run with a selector outside, at whatever position,
\* returns nothing and keeps stepping until it is in the fatal state.
C5_FatalOnBadBand ==
    /\ (pc = "done" \/ ret.kind = "BitGrid") =>
            \A k \in DOMAIN bandlist : SelectorInRange(k)
    /\ ((\E k \in DOMAIN bandlist : ~SelectorInRange(k)) /\ pc # "fatal") =>
            (ret = NoRet /\ ENABLED Next)

\* C5 witness: the fatal state, entered after a valid band was scanned.
C5_Witness ==
    /\ pc = "fatal" /\ bandlist_idx >= 1
    /\ \A p \in Coords(w, h) : visits[p] = 1

ProgressInRange(v) == 0 <= v[1] /\ v[1] <= v[2]

\* C6 as claimed: the reported values never decrease, lie in [0,1], and the
\* last value of a run that reported any is 1, for every bandlist.
C6_Original ==
    /\ progress # NoProgress => ProgressInRange(progress)
    /\ prev_progress # NoProgress => FracLeq(prev_progress, progress)
    /\ (pc \in {"done", "fatal"} /\ progress # NoProgress) =>
            progress[1] = progress[2]

\* C6 amended: the reported values never decrease and lie in [0,1]; a run
\* that returns a mask reports 1 last; a run ended by the fatal error never
\* reports 1.
C6_ProgressMonotone ==
    /\ progress # NoProgress => ProgressInRange(progress)
    /\ prev_progress # NoProgress => FracLeq(prev_progress, progress)
    /\ pc = "done" => (progress # NoProgress /\ progress[1] = progress[2])
    /\ pc # "done" => (progress = NoProgress \/ progress[1] < progress[2])

\* C6 witness: in the second band, scanned in blocks that do not divide the
\* width, a value larger than the one before has been reported.
C6_Witness ==
    /\ pc = "tile" /\ bandlist_idx = 1
    /\ w % blocksize_x # 0 /\ boff_x > 0
    /\ prev_progress # NoProgress
    /\ ~FracLeq(progress, prev_progress)

\* C10: the tiles of a band partition the raster: no read and no mask.set
\* leaves the raster, between bands every pixel has been applied once per
\* band scanned (within a band, at most once more), and the bit of a pixel
\* is the combination of the samples of that very pixel, whatever the block
\* sizes.
C10_TilesPartition ==
    /\ faults = {}
    /\ \A p \in Coords(w, h) :
        /\ BetweenBands => visits[p] = bandlist_idx
        /\ visits[p] \in {bandlist_idx, bandlist_idx + 1}
        /\ visits[p] >= 1 =>
             grid[p] = (IF ndv_def.invert THEN all_valid[p] ELSE any_valid[p])

\* C10 witness: a 3-wide raster in its second band, blocks of width 2: the
\* full tile is done, the cut tile of width 1 is next, and the mask tells
\* the first two pixels apart.
C10_Witness ==
    /\ pc = "tile" /\ bandlist_idx = 1
    /\ w = 3 /\ blocksize_x = 2 /\ boff_x = 2
    /\ visits[<<0, 0>>] = 2 /\ visits[<<2, 0>>] = 1
    /\ grid[<<0, 0>>] # grid[<<1, 0>>]

\* the positions plotted during the scan of the band at position k
BandPlots(k) == {<<c[2], c[3]>> : c \in {d \in plots : d[1] = k}}

\* the positions the final pass examines
StrideGrid ==
    {p \in Coords(w, h) :
        (p[1] % dbuf.stride_x) = 0 /\ (p[2] % dbuf.stride_y) = 0}

\* C9: plotPoint is called during the scan of band 0 exactly for the pixels
\* on the stride grid of image coordinates (the positions the final pass
\* examines), and never during the scan of a later band.
C9_Claim ==
    /\ \A c \in plots : c[1] <= 0
    /\ BandPlots(0) \subseteq StrideGrid
    /\ (dbuf.present /\ bandlist_idx >= 1) => BandPlots(0) = StrideGrid

\* ===================================================================
\* Properties of BitGrid::erode and BitGrid::centroid
\* ===================================================================

\* grid g with a frame of one cell around it: a cell outside the grid counts
\* as unset, but the cells below the last row take the values of below when
\* below is a row of w values
Framed(g, below) ==
    [q \in (-1 .. w) \X (-1 .. h) |->
        IF q \in DOMAIN g THEN g[q]
        ELSE IF q[2] = h /\ q[1] \in DOMAIN below THEN below[q[1]]
        ELSE FALSE]

\* the ring of the eight neighbours, clockwise from the upper left
Ring == << <<-1, -1>>, <<0, -1>>, <<1, -1>>, <<1, 0>>,
           <<1, 1>>, <<0, 1>>, <<-1, 1>>, <<-1, 0>> >>

\* two neighbours of (x, y) that follow each other on the ring are both set
\* in the framed grid n
RingPair(n, x, y) ==
    \E k \in 1 .. 8 :
        /\ n[<<x + Ring[k][1], y + Ring[k][2]>>]
        /\ n[<<x + Ring[(k % 8) + 1][1], y + Ring[(k % 8) + 1][2]>>]

\* the eight pairs as C3 lists them, u=up d=down l=left r=right:
\* (ul,u),(u,ur),(ur,r),(r,lr),(lr,l),(l,ll),(ll,d),(d,ul)
ListedPair(n, x, y) ==
    LET ul == n[<<x - 1, y - 1>>]
        u  == n[<<x, y - 1>>]
        ur == n[<<x + 1, y - 1>>]
        l  == n[<<x - 1, y>>]
        r  == n[<<x + 1, y>>]
        ll == n[<<x - 1, y + 1>>]
        d  == n[<<x, y + 1>>]
        lr == n[<<x + 1, y + 1>>]
    IN  (ul /\ u) \/ (u /\ ur) \/ (ur /\ r) \/ (r /\ lr) \/
        (lr /\ l) \/ (l /\ ll) \/ (ll /\ d) \/ (d /\ ul)

\* all rows of erode() are done, the buffers not yet deleted
RowsDone == pc = "erode" /\ ey = h

Corners == {<<0, 0>>, <<3, 0>>, <<0, 3>>, <<3, 3>>}

\* C7 as claimed: erode() on the all-true 4 x 4 grid clears the four corners.
C7_Original ==
    (pc = "eroded" /\ pre = SeedGrid) => \A c \in Corners : ~grid[c]

\* C7 amended: erode() on the all-true 4 x 4 grid leaves the four corners
\* set: each corner has two set neighbours that follow each other on the ring.
C7_CornersKept ==
    (pc = "eroded" /\ pre = SeedGrid) => \A c \in Corners : grid[c]

\* C7 witness: erode() has returned on the all-true 4 x 4 grid.
C7_Witness == pc = "eroded" /\ pre = SeedGrid /\ w = 4 /\ h = 4

\* C8: every get and set of erode() is inside the grid and every read of a
\* row buffer inside the buffer.
C8_Claim == faults = {}

SetCells == {p \in Coords(w, h) : grid[p]}

RECURSIVE SumOf(_, _)
SumOf(S, axis) ==
    IF S = {} THEN 0
    ELSE LET p == CHOOSE q \in S : TRUE IN p[axis] + SumOf(S \ {p}, axis)

\* C4: centroid() of a grid without a set pixel ends in an error and returns
\* no Vertex; with a set pixel it returns the mean of the set coordinates.
C4_Claim ==
    (ret.kind \in {"Vertex", "error"}) =>
        IF SetCells = {}
        THEN ret.kind = "error"
        ELSE /\ ret.kind = "Vertex"
             /\ ret.x = <<SumOf(SetCells, 1), Cardinality(SetCells)>>
             /\ ret.y = <<SumOf(SetCells, 2), Cardinality(SetCells)>>

====
